---------------------------- MODULE Spec2Model ----------------------------
(***************************************************************************)
(* SSE4a bindings of core_arch (crates/core_arch/src/x86/sse4a.rs):        *)
(* _mm_extract_si64, _mm_insert_si64, _mm_stream_sd, _mm_stream_ss.        *)
(*                                                                         *)
(* A 128-bit register is the set of the positions (0..127) of its 1 bits,  *)
(* a 64-bit lane the set of the positions (0..63) of its 1 bits: the full  *)
(* width is kept and no arithmetic overflows.  Memory is an array of       *)
(* 32-bit words holding IEEE-754 bit patterns.                             *)
(***************************************************************************)
EXTENDS Integers, Sequences, FiniteSets, TLC

VARIABLES
    last,     \* the latest intrinsic call of the caller: [op, x, y, r]
    prev,     \* the call before it when `last` took its result as x, else NoCall
    n,        \* number of calls in the current chain
    mem,      \* globally visible memory, one 32-bit word per address
    wc,       \* the writing thread's write-combining buffer (pending
              \* non-temporal stores, not yet globally visible)
    st,       \* the latest streaming store: [op, p, a, pre]
    latest,   \* per address: the word the latest streaming store wrote there
    fenced,   \* per address: the writer executed a store-fence after its
              \* latest streaming store to the address
    obs,      \* the latest load: [who, p, val, fenced, latest, pending]
    stale,    \* some load observed the old word while a store was pending
    stores    \* number of streaming stores executed

codecVars  == <<last, prev, n>>
streamVars == <<mem, wc, st, latest, fenced, obs, stale, stores>>
vars       == <<last, prev, n, mem, wc, st, latest, fenced, obs, stale, stores>>

----------------------------------------------------------------------------
(* Bounds of the model. *)

\* Longest chain of calls in which each call takes the previous result as x.
MaxOps == 2

\* Number of streaming stores in one run.
MaxStores == 2

----------------------------------------------------------------------------
(* Bit vectors. *)

Bits64  == 0..63
Bits128 == 0..127

\* 2^k for 0 <= k <= 30.
Pow2(k) ==
    << 1, 2, 4, 8, 16, 32, 64, 128, 256, 512, 1024, 2048, 4096, 8192, 16384,
       32768, 65536, 131072, 262144, 524288, 1048576, 2097152, 4194304,
       8388608, 16777216, 33554432, 67108864, 134217728, 268435456,
       536870912, 1073741824 >>[k + 1]

\* The i64 literal n (0 <= n < 2^31) as a lane.
I64(m) == {b \in 0..30 : (m \div Pow2(b)) % 2 = 1}

\* The unsigned value of the 6-bit field of `lane` whose bit 0 is at `lo`
\* (the instruction's operand & 0x3f).
FieldValue(lane, lo) ==
      (IF lo \in lane THEN 1 ELSE 0)
    + (IF (lo + 1) \in lane THEN 2 ELSE 0)
    + (IF (lo + 2) \in lane THEN 4 ELSE 0)
    + (IF (lo + 3) \in lane THEN 8 ELSE 0)
    + (IF (lo + 4) \in lane THEN 16 ELSE 0)
    + (IF (lo + 5) \in lane THEN 32 ELSE 0)

\* x.as_i64x2(): the two 64-bit lanes of a 128-bit register.
as_i64x2(v) == << {b \in Bits64 : b \in v}, {b \in Bits64 : (b + 64) \in v} >>

\* y.as_i8x16(): the sixteen bytes of a 128-bit register, byte 0 the lowest.
as_i8x16(v) == [k \in 0..15 |-> {b \in 0..7 : (8 * k + b) \in v}]

\* transmute::<i64x2, __m128i>: the same 128 bits again.
transmute(l) == {b \in Bits128 : IF b < 64 THEN b \in l[1] ELSE (b - 64) \in l[2]}

\* _mm_setr_epi64x(e0, e1): lane 0 = e0, lane 1 = e1.
_mm_setr_epi64x(e0, e1) == transmute(<<e0, e1>>)

----------------------------------------------------------------------------
(* The bit-field descriptor. *)

\* "If length == 0 && index > 0 or length + index > 64 the result is undefined."
ValidDesc(index, length) ==
    IF length = 0 THEN index = 0 ELSE index + length <= 64

\* "If the length is zero, it is interpreted as 64."
EffLen(length) == IF length = 0 THEN 64 ELSE length

\* The bit positions of the field.
FieldBits(index, length) == {b \in Bits64 : index <= b /\ b < index + EffLen(length)}

\* What the undefined lanes of one result may hold (two representatives: all
\* zeros, all ones).
Undefined64 == {{}, Bits64}

----------------------------------------------------------------------------
(* The native instructions. *)

\* EXTRQ xmm, xmm: length = y[0] & 0x3f, index = y[1] & 0x3f; the field of
\* x's lane 0, zero-extended; the upper lane of the result is undefined.
extrq(x, y) ==
    LET length == FieldValue(y[0], 0)
        index  == FieldValue(y[1], 0)
        field  == {b \in Bits64 : b < EffLen(length) /\ (b + index) \in x[1]}
    IN  { <<IF ValidDesc(index, length) THEN field ELSE u, u>> : u \in Undefined64 }

\* INSERTQ xmm, xmm: length = y[69:64], index = y[77:72]; the low `length`
\* bits of y's lane 0 replace the field of x's lane 0; the upper lane of the
\* result is undefined.
insertq(x, y) ==
    LET length == FieldValue(y[2], 0)
        index  == FieldValue(y[2], 8)
        field  == FieldBits(index, length)
        merged == {b \in Bits64 : IF b \in field THEN (b - index) \in y[1] ELSE b \in x[1]}
    IN  { <<IF ValidDesc(index, length) THEN merged ELSE u, u>> : u \in Undefined64 }

----------------------------------------------------------------------------
(* The intrinsics: each returns the set of results the call may produce. *)

\* Mutants of _mm_extract_si64: the operands passed in the wrong order; the
\* call bound to the other instruction; a range check in front of the call
\* (Trap stands for the error it would report).
_mm_extract_si64_swapped(x, y) == { transmute(o) : o \in extrq(as_i64x2(y), as_i8x16(x)) }

_mm_extract_si64_as_insert(x, y) == { transmute(o) : o \in insertq(as_i64x2(x), as_i64x2(y)) }

Trap == {-1}

_mm_extract_si64_checked(x, y) ==
    IF ValidDesc(FieldValue(as_i64x2(y)[1], 8), FieldValue(as_i64x2(y)[1], 0))
    THEN { transmute(o) : o \in extrq(as_i64x2(x), as_i8x16(y)) }
    ELSE { Trap }

_mm_extract_si64(x, y) == { transmute(o) : o \in extrq(as_i64x2(x), as_i8x16(y)) }

\* Mutants of _mm_insert_si64: the operands passed in the wrong order; the
\* call bound to the other instruction.
_mm_insert_si64_swapped(x, y) == { transmute(o) : o \in insertq(as_i64x2(y), as_i64x2(x)) }

_mm_insert_si64_as_extract(x, y) == { transmute(o) : o \in extrq(as_i64x2(x), as_i8x16(y)) }

_mm_insert_si64(x, y) == { transmute(o) : o \in insertq(as_i64x2(x), as_i64x2(y)) }

----------------------------------------------------------------------------
(* The caller: operands. *)

\* The control word with `index` in bits [13:8] and `length` in bits [5:0].
ControlWord(index, length) == I64(256 * index + length)

\* (index, length) pairs: the tests' (8, 4); a wide field ending at bit 63;
\* the whole lane (0, 0); and two that violate the precondition.
Descriptors == { <<8, 4>>, <<8, 56>>, <<0, 0>>, <<8, 0>>, <<60, 56>> }

\* Bits of a control lane outside the index and length fields.
SpareBits == {b \in Bits64 : b \notin (0..5) /\ b \notin (8..13)}

\* Settings of the spare control bits the caller passes.
SpareInputs == { {}, {6, 7, 14, 63} }

\* Lane 0 of x: the tests' values, zero, all ones, and the two end bits.
XLane0Inputs == { I64(1536), I64(2730), {}, Bits64, {0, 63} }

\* Lane 1 of x.
XLane1Inputs == { {}, {5, 63} }

\* The bits to insert (lane 0 of y): the tests' 0b0110, and all ones.
InsertInputs == { I64(6), Bits64 }

XInputs == { _mm_setr_epi64x(a, b) : a \in XLane0Inputs, b \in XLane1Inputs }

\* y of an extract call: control in lane 0, lane 1 ignored.
ExtractYInputs ==
    { _mm_setr_epi64x(ControlWord(d[1], d[2]) \cup s, s) : d \in Descriptors, s \in SpareInputs }

\* y of an insert call: bits in lane 0, control in lane 1.
InsertYInputs ==
    { _mm_setr_epi64x(i, ControlWord(d[1], d[2]) \cup s) :
          i \in InsertInputs, d \in Descriptors, s \in SpareInputs }

NoCall == [op |-> "none", x |-> {}, y |-> {}, r |-> {}]

----------------------------------------------------------------------------
(* The caller: calls. *)

\* r = _mm_extract_si64(x, y) on fresh operands.
Extract ==
    /\ last.op = "none"
    /\ \E x \in XInputs, y \in ExtractYInputs :
        \E r \in _mm_extract_si64(x, y) :
            /\ last' = [op |-> "extract", x |-> x, y |-> y, r |-> r]
            /\ prev' = NoCall
            /\ n' = 1
            /\ UNCHANGED streamVars

\* r = _mm_insert_si64(x, y) on fresh operands.
Insert ==
    /\ last.op = "none"
    /\ \E x \in XInputs, y \in InsertYInputs :
        \E r \in _mm_insert_si64(x, y) :
            /\ last' = [op |-> "insert", x |-> x, y |-> y, r |-> r]
            /\ prev' = NoCall
            /\ n' = 1
            /\ UNCHANGED streamVars

\* r = _mm_extract_si64(r, y): the previous result is the source.
ExtractResult ==
    /\ last.op # "none"
    /\ n < MaxOps
    /\ \E y \in ExtractYInputs :
        \E r \in _mm_extract_si64(last.r, y) :
            /\ last' = [op |-> "extract", x |-> last.r, y |-> y, r |-> r]
            /\ prev' = last
            /\ n' = n + 1
            /\ UNCHANGED streamVars

\* r = _mm_insert_si64(r, y): the previous result is the destination.
InsertResult ==
    /\ last.op # "none"
    /\ n < MaxOps
    /\ \E y \in InsertYInputs :
        \E r \in _mm_insert_si64(last.r, y) :
            /\ last' = [op |-> "insert", x |-> last.r, y |-> y, r |-> r]
            /\ prev' = last
            /\ n' = n + 1
            /\ UNCHANGED streamVars

\* The caller is done with the result: the intrinsics keep no state.
Discard ==
    /\ last.op # "none"
    /\ last' = NoCall
    /\ prev' = NoCall
    /\ n' = 0
    /\ UNCHANGED streamVars

----------------------------------------------------------------------------
(* Floating-point values and memory. *)

\* Word addresses of the 16-byte block the tests store into.
Addrs == 0..3

\* The IEEE-754 single-precision bit patterns of 1.0 .. 8.0.
F32Bits == << 1065353216, 1073741824, 1077936128, 1082130432,
              1084227584, 1086324736, 1088421888, 1090519040 >>

\* The high words of the IEEE-754 double-precision bit patterns of 1.0 .. 4.0
\* (their low words are 0).
F64HighBits == << 1072693248, 1073741824, 1074266112, 1074790400 >>

\* _mm_setr_pd(a, b): lane 0 = a, lane 1 = b, as four 32-bit words.
_mm_setr_pd(a, b) == << 0, F64HighBits[a], 0, F64HighBits[b] >>

\* _mm_setr_ps(a, b, c, d): lane 0 = a, ..., lane 3 = d.
_mm_setr_ps(a, b, c, d) == << F32Bits[a], F32Bits[b], F32Bits[c], F32Bits[d] >>

\* MemoryF64 { data: [1.0, 2.0] }.
MemoryF64 == [q \in Addrs |-> _mm_setr_pd(1, 2)[q + 1]]

\* MemoryF32 { data: [1.0, 2.0, 3.0, 4.0] }.
MemoryF32 == [q \in Addrs |-> _mm_setr_ps(1, 2, 3, 4)[q + 1]]

\* No pending word.
NoWord == -1

Empty == [q \in Addrs |-> NoWord]

\* The values the tests stream, and the same lanes swapped.
PdInputs == { _mm_setr_pd(3, 4), _mm_setr_pd(4, 3) }
PsInputs == { _mm_setr_ps(5, 6, 7, 8), _mm_setr_ps(8, 7, 6, 5) }

\* 8-byte aligned and 4-byte aligned addresses inside the block.
SdAddrs == {0, 2}
SsAddrs == Addrs

Threads == {"writer", "observer"}

----------------------------------------------------------------------------
(* The native stores: the write goes to the write-combining buffer. *)

\* MOVNTSD m64, xmm: the low 64 bits of `a` to the two words at p.
movntsd(buf, p, a) ==
    [q \in Addrs |-> IF q = p THEN a[1] ELSE IF q = p + 1 THEN a[2] ELSE buf[q]]

\* MOVNTSS m32, xmm: the low 32 bits of `a` to the word at p.
movntss(buf, p, a) ==
    [q \in Addrs |-> IF q = p THEN a[1] ELSE buf[q]]

\* Mutant of _mm_stream_sd: the call bound to the 128-bit store (MOVNTPD).
_mm_stream_sd_wide(buf, p, a) ==
    [q \in Addrs |-> IF q >= p /\ q - p < 4 THEN a[q - p + 1] ELSE buf[q]]

_mm_stream_sd(buf, p, a) == movntsd(buf, p, a)

_mm_stream_ss(buf, p, a) == movntss(buf, p, a)

\* What the block holds: a pending word where there is one, else memory.
\* It is what the writing thread reads back.
View(q) == IF wc[q] # NoWord THEN wc[q] ELSE mem[q]

NoStore == [op |-> "none", p |-> 0, a |-> <<>>, pre |-> Empty]
NoLoad  == [who |-> "none", p |-> 0, val |-> NoWord, fenced |-> FALSE, latest |-> NoWord]

----------------------------------------------------------------------------
(* The writer and the observer. *)

\* The writer: _mm_stream_sd(p, a).
StreamSd ==
    /\ stores < MaxStores
    /\ \E p \in SdAddrs, a \in PdInputs :
        /\ wc' = _mm_stream_sd(wc, p, a)
        /\ st' = [op |-> "sd", p |-> p, a |-> a, pre |-> [q \in Addrs |-> View(q)]]
        /\ latest' = [q \in Addrs |-> IF q = p THEN a[1] ELSE IF q = p + 1 THEN a[2]
                                      ELSE latest[q]]
        /\ fenced' = [q \in Addrs |-> IF q \in {p, p + 1} THEN FALSE ELSE fenced[q]]
    /\ stores' = stores + 1
    /\ UNCHANGED <<mem, obs, stale>>
    /\ UNCHANGED codecVars

\* The writer: _mm_stream_ss(p, a).
StreamSs ==
    /\ stores < MaxStores
    /\ \E p \in SsAddrs, a \in PsInputs :
        /\ wc' = _mm_stream_ss(wc, p, a)
        /\ st' = [op |-> "ss", p |-> p, a |-> a, pre |-> [q \in Addrs |-> View(q)]]
        /\ latest' = [q \in Addrs |-> IF q = p THEN a[1] ELSE latest[q]]
        /\ fenced' = [q \in Addrs |-> IF q = p THEN FALSE ELSE fenced[q]]
    /\ stores' = stores + 1
    /\ UNCHANGED <<mem, obs, stale>>
    /\ UNCHANGED codecVars

\* Mutant of sfence: a fence that leaves the pending words pending.
sfence_noop(m, buf) == << m, buf >>

\* What a store-fence does to (memory, buffer): every pending word becomes
\* globally visible.
sfence(m, buf) == << [q \in Addrs |-> IF buf[q] # NoWord THEN buf[q] ELSE m[q]], Empty >>

\* The writer: _mm_sfence().
Sfence ==
    /\ mem' = sfence(mem, wc)[1]
    /\ wc' = sfence(mem, wc)[2]
    /\ fenced' = [q \in Addrs |-> latest[q] # NoWord]
    /\ UNCHANGED <<st, latest, obs, stale, stores>>
    /\ UNCHANGED codecVars

\* The processor evicts the write-combining buffer on its own.
Evict ==
    /\ wc # Empty
    /\ mem' = [q \in Addrs |-> View(q)]
    /\ wc' = Empty
    /\ UNCHANGED <<st, latest, fenced, obs, stale, stores>>
    /\ UNCHANGED codecVars

\* An ordinary load of the word at q: the writer reads the block back (the
\* tests' assert_eq!(mem.data[i], ..)), another thread reads what is
\* globally visible.
Load ==
    \E who \in Threads, q \in Addrs :
        LET val == IF who = "writer" THEN View(q) ELSE mem[q] IN
        /\ obs' = [who |-> who, p |-> q, val |-> val,
                   fenced |-> fenced[q], latest |-> latest[q]]
        /\ stale' = (stale \/ (latest[q] # NoWord /\ val # latest[q]))
        /\ UNCHANGED <<mem, wc, st, latest, fenced, stores>>
        /\ UNCHANGED codecVars

----------------------------------------------------------------------------
(* Specifications. *)

\* Nothing called, nothing stored; the block holds MemoryF64.
Init ==
    /\ last = NoCall
    /\ prev = NoCall
    /\ n = 0
    /\ mem = MemoryF64
    /\ wc = Empty
    /\ st = NoStore
    /\ latest = Empty
    /\ fenced = [q \in Addrs |-> FALSE]
    /\ obs = NoLoad
    /\ stale = FALSE
    /\ stores = 0

\* The same, the block holding either of the tests' arrays.
InitStream ==
    /\ last = NoCall
    /\ prev = NoCall
    /\ n = 0
    /\ mem \in {MemoryF64, MemoryF32}
    /\ wc = Empty
    /\ st = NoStore
    /\ latest = Empty
    /\ fenced = [q \in Addrs |-> FALSE]
    /\ obs = NoLoad
    /\ stale = FALSE
    /\ stores = 0

NextCodec == Extract \/ Insert \/ ExtractResult \/ InsertResult \/ Discard

NextStream == StreamSd \/ StreamSs \/ Sfence \/ Evict \/ Load

\* The bit-field intrinsics and their caller.
SpecCodec == Init /\ [][NextCodec]_vars

\* The streaming stores, the writing thread and an observing thread.
SpecStream == InitStream /\ [][NextStream]_vars

----------------------------------------------------------------------------
(* The claims read the operands and results bit by bit: bit b of lane 0 is  *)
(* bit b of the register, bit b of lane 1 is bit b + 64.                    *)

\* The weight of bit b of a field when the bit is set in register v at `at`.
Weight(v, at, w) == IF at \in v THEN w ELSE 0

\* The 6-bit field of register v whose bit 0 is bit `lo` of v.
Field6(v, lo) ==
    Weight(v, lo, 1) + Weight(v, lo + 1, 2) + Weight(v, lo + 2, 4)
        + Weight(v, lo + 3, 8) + Weight(v, lo + 4, 16) + Weight(v, lo + 5, 32)

\* The descriptor of a call: bits [5:0] and [13:8] of y for extract, bits
\* [69:64] and [77:72] of y for insert.
LengthOf(c) == IF c.op = "extract" THEN Field6(c.y, 0) ELSE Field6(c.y, 64)
IndexOf(c)  == IF c.op = "extract" THEN Field6(c.y, 8) ELSE Field6(c.y, 72)

\* length > 0 and index + length <= 64.
ProperField(c) == LengthOf(c) > 0 /\ IndexOf(c) + LengthOf(c) <= 64

\* A proper field, or the whole lane (index = 0, length = 0).
ValidCall(c) == ProperField(c) \/ (LengthOf(c) = 0 /\ IndexOf(c) = 0)

LowLane(v)  == {b \in Bits64 : b \in v}
HighLane(v) == {b \in Bits64 : (b + 64) \in v}

\* Lane 0 the documentation promises for a call with a proper field.
ExpectedLane0(c) ==
    IF c.op = "extract"
    THEN {b \in Bits64 : b < LengthOf(c) /\ (b + IndexOf(c)) \in c.x}
    ELSE {b \in Bits64 : IF IndexOf(c) <= b /\ b < IndexOf(c) + LengthOf(c)
                         THEN (b - IndexOf(c)) \in c.y
                         ELSE b \in c.x}

\* C1: after _mm_extract_si64(x, y) with length > 0 and index + length <= 64,
\* bit b of the result's lane 0 is bit b + index of x's lane 0 for b < length
\* and 0 for b >= length.
C1_ExtractField ==
    (last.op = "extract" /\ ProperField(last)) =>
        \A b \in Bits64 :
            (b \in last.r) <=> (b < LengthOf(last) /\ (b + IndexOf(last)) \in last.x)

\* The test: x = 0b0110_0000_0000, index 8, length 4 gives 0b0110.
C1_Witness ==
    /\ last.op = "extract"
    /\ LowLane(last.x) = I64(1536)
    /\ IndexOf(last) = 8 /\ LengthOf(last) = 4
    /\ LowLane(last.r) = I64(6)

\* C2: after _mm_insert_si64(x, y) with length > 0 and index + length <= 64,
\* bits [index+length-1 : index] of the result's lane 0 are the low `length`
\* bits of y's lane 0 and every other bit of lane 0 is that bit of x.
C2_InsertField ==
    (last.op = "insert" /\ ProperField(last)) =>
        \A b \in Bits64 :
            (b \in last.r) <=>
                IF IndexOf(last) <= b /\ b < IndexOf(last) + LengthOf(last)
                THEN (b - IndexOf(last)) \in last.y
                ELSE b \in last.x

\* The test: x = 0b1010_1010_1010, bits 0b0110, index 8, length 4 gives
\* 0b0110_1010_1010.
C2_Witness ==
    /\ last.op = "insert"
    /\ LowLane(last.x) = I64(2730)
    /\ LowLane(last.y) = I64(6)
    /\ IndexOf(last) = 8 /\ LengthOf(last) = 4
    /\ LowLane(last.r) = I64(1706)

\* C5: extracting (index, length) from the result of inserting field_bits at
\* the same (index, length), length > 0 and index + length <= 64, gives
\* field_bits truncated to its low `length` bits.
C5_InsertExtractRoundTrip ==
    ( /\ prev.op = "insert" /\ last.op = "extract"
      /\ ProperField(prev)
      /\ IndexOf(last) = IndexOf(prev) /\ LengthOf(last) = LengthOf(prev) ) =>
        LowLane(last.r) = {b \in Bits64 : b < LengthOf(prev) /\ b \in prev.y}

\* All ones inserted at (8, 4) into 0b0110_0000_0000, then extracted: 0b1111,
\* the inserted bits truncated to 4 bits.
C5_Witness ==
    /\ prev.op = "insert" /\ last.op = "extract"
    /\ LowLane(prev.x) = I64(1536)
    /\ LowLane(prev.y) = Bits64
    /\ IndexOf(prev) = 8 /\ LengthOf(prev) = 4
    /\ IndexOf(last) = 8 /\ LengthOf(last) = 4
    /\ LowLane(last.r) = I64(15)

\* C6: _mm_extract_si64 with index = 0 and length = 0 returns x's lane 0
\* unchanged in lane 0: a length of 0 stands for 64.
C6_ExtractWholeLane ==
    (last.op = "extract" /\ IndexOf(last) = 0 /\ LengthOf(last) = 0) =>
        LowLane(last.r) = LowLane(last.x)

\* All 64 bits come back, bit 63 included.
C6_Witness ==
    /\ last.op = "extract" /\ IndexOf(last) = 0 /\ LengthOf(last) = 0
    /\ LowLane(last.x) = Bits64
    /\ LowLane(last.r) = Bits64

\* C7: inserting field_bits into x at a proper (index, length) and then
\* inserting x's own bits [index+length-1 : index] at the same (index, length)
\* gives back x's lane 0.
C7_InsertUndo ==
    ( /\ prev.op = "insert" /\ last.op = "insert"
      /\ ProperField(prev)
      /\ IndexOf(last) = IndexOf(prev) /\ LengthOf(last) = LengthOf(prev)
      /\ \A b \in Bits64 :
            b < LengthOf(prev) => ((b \in last.y) <=> ((b + IndexOf(prev)) \in prev.x)) ) =>
        LowLane(last.r) = LowLane(prev.x)

\* The first insert changed the lane and the second one restored it.
C7_Witness ==
    /\ prev.op = "insert" /\ last.op = "insert"
    /\ ProperField(prev)
    /\ IndexOf(last) = IndexOf(prev) /\ LengthOf(last) = LengthOf(prev)
    /\ LowLane(prev.x) = I64(1536)
    /\ LowLane(prev.r) = I64(3840)
    /\ LowLane(last.y) = I64(6)
    /\ LowLane(last.r) = I64(1536)

\* Other settings of the control bits outside the two fields.
SpareVariants == { {}, {6, 7, 14, 63}, SpareBits }

\* The control operands that agree with c.y on the index field, the length
\* field and (insert) the bits to insert.
SameFields(c) ==
    IF c.op = "extract"
    THEN { _mm_setr_epi64x(ControlWord(IndexOf(c), LengthOf(c)) \cup s, h) :
               s \in SpareVariants, h \in {{}, Bits64} }
    ELSE { _mm_setr_epi64x(LowLane(c.y), ControlWord(IndexOf(c), LengthOf(c)) \cup s) :
               s \in SpareVariants }

\* C8: with a valid descriptor, lane 0 of the result is the same for every
\* control operand that agrees on the index and length fields (and, for
\* insert, on y's lane 0), whatever the other control bits are.
C8_SpareBitsIgnored ==
    (last.op # "none" /\ ValidCall(last)) =>
        \A y2 \in SameFields(last) :
            \A r2 \in (IF last.op = "extract" THEN _mm_extract_si64(last.x, y2)
                                            ELSE _mm_insert_si64(last.x, y2)) :
                LowLane(r2) = LowLane(last.r)

\* A call whose control lane has spare bits set and whose result is not 0.
C8_Witness ==
    /\ last.op = "extract" /\ ProperField(last)
    /\ {6, 7, 14, 63} \subseteq LowLane(last.y)
    /\ HighLane(last.y) # {}
    /\ LowLane(last.r) = I64(6)

\* C9: every call, also one whose descriptor violates the precondition,
\* returns a 128-bit register value: there is no error value.
C9_NoErrorValue ==
    /\ (last.op # "none") => last.r \subseteq Bits128
    /\ (prev.op # "none") => prev.r \subseteq Bits128

\* An insert with index + length > 64 followed by an extract with length = 0
\* and index > 0: both returned a register.
C9_Witness ==
    /\ prev.op = "insert" /\ IndexOf(prev) + LengthOf(prev) > 64
    /\ last.op = "extract" /\ LengthOf(last) = 0 /\ IndexOf(last) > 0
    /\ prev.r \subseteq Bits128 /\ last.r \subseteq Bits128

----------------------------------------------------------------------------
(* The streaming stores. *)

\* The words a streaming store writes: address -> word.
Footprint(s) ==
    IF s.op = "sd" THEN {s.p, s.p + 1} ELSE IF s.op = "ss" THEN {s.p} ELSE {}

\* C3: after _mm_stream_sd(p, a) the 64-bit slot at p holds lane 0 of a, after
\* _mm_stream_ss(p, a) the 32-bit slot at p holds lane 0 of a, and every other
\* word of the block holds what it held before the call.
C3_StoreFootprint ==
    /\ (st.op = "sd") => (View(st.p) = st.a[1] /\ View(st.p + 1) = st.a[2])
    /\ (st.op = "ss") => (View(st.p) = st.a[1])
    /\ (st.op # "none") =>
           \A q \in Addrs : (q \notin Footprint(st)) => View(q) = st.pre[q]

\* The test: [1.0, 2.0] with a = (3.0, 4.0) becomes [3.0, 2.0].
C3_Witness ==
    /\ st.op = "sd" /\ st.p = 0
    /\ st.pre = MemoryF64
    /\ st.a = _mm_setr_pd(3, 4)
    /\ [q \in Addrs |-> View(q)] = [q \in Addrs |-> _mm_setr_pd(3, 2)[q + 1]]

=============================================================================
